---- MODULE Spec2Model ----
(***************************************************************************)
(* A model of the 2D signed-distance-field light renderer:                 *)
(*   src/src/shape.rs  - the Shape trait, the primitives and combinators   *)
(*   src/src/scene.rs  - Scene: render loop, sampling, sphere tracing      *)
(*                                                                         *)
(* An f64 is modelled by an enclosure [lo, hi] in fixed point: the f64 v   *)
(* the code holds satisfies lo <= v * Scale <= hi.  An f64 the code        *)
(* computes exactly (small integers, halves, quarters and their sums and   *)
(* products) is a point, lo = hi; a result that fixed point cannot hold    *)
(* (a square root, a quotient, a cosine) is enclosed by rounding lo down   *)
(* and hi up.  A comparison of two enclosures that overlap has both        *)
(* outcomes: the operators that compare return the SET of the results the  *)
(* code can produce, and the actions choose among them.  NaN, the          *)
(* infinities and f64::MAX are points at reserved integers.                *)
(***************************************************************************)
EXTENDS Integers, Sequences, FiniteSets, TLC

VARIABLES
    inp,        \* pure-function specifications: the arguments of the call
    out,        \* pure-function specifications: the value returned (NoResult before)
    march,      \* Scene::trace: the state of the march of one sample
    scene,      \* the Scene: width, height, shapes
    pc,         \* where the caller of the Scene is
    cur,        \* render_to_file and sample: loop counters x, y, i and sum
    image,      \* render_to_file: the pixel buffer
    sampled,    \* history: for each pixel sampled, how often, its sum, its offset
    fs          \* the file at path and the buffer handed to the png encoder

vars == <<inp, out, march, scene, pc, cur, image, sampled, fs>>
renderVars == <<scene, pc, cur, image, sampled, fs>>

(***************************************************************************)
(* Bounds of the model                                                     *)
(***************************************************************************)
\* fixed-point resolution: Scale units per 1.0
Scale == 100
\* query points and shape parameters lie on the integer grid -Grid..Grid
Grid == 2

(***************************************************************************)
(* u32 and usize arithmetic on little-endian base-256 digit strings, so    *)
(* that values up to 2^64 can be written down                              *)
(***************************************************************************)
WideDigits == 1..8

\* the digits of n, 0 <= n < 2^31
Digits(n) == [k \in WideDigits |-> IF k <= 4 THEN (n \div 256^(k - 1)) % 256 ELSE 0]

RECURSIVE CarryFrom(_, _, _)
CarryFrom(cols, k, carry) ==
    IF k > 8 THEN <<>>
    ELSE LET v == cols[k] + carry
         IN <<v % 256>> \o CarryFrom(cols, k + 1, v \div 256)

RECURSIVE ColumnSum(_, _, _, _)
ColumnSum(a, b, k, i) ==
    IF i > k THEN 0
    ELSE a[i] * b[k - i + 1] + ColumnSum(a, b, k, i + 1)

\* a * b and a + b in 64 bits
MulWide(a, b) == CarryFrom([k \in WideDigits |-> ColumnSum(a, b, k, 1)], 1, 0)
AddWide(a, b) == CarryFrom([k \in WideDigits |-> a[k] + b[k]], 1, 0)

LessWide(a, b) ==
    \E k \in WideDigits : a[k] < b[k] /\ \A j \in WideDigits : j > k => a[j] = b[j]

\* whether a value fits a u32, and the u32 it wraps to
FitsU32(d) == \A k \in 5..8 : d[k] = 0
WrapU32(d) == [k \in WideDigits |-> IF k <= 4 THEN d[k] ELSE 0]

\* the value of a digit string below 2^31
ToInt(d) == d[1] + 256 * d[2] + 65536 * d[3] + 16777216 * d[4]

(***************************************************************************)
(* f64 values and their arithmetic                                         *)
(***************************************************************************)
F64Max == 2^29
PosInf == 2^30
NegInf == -(2^30)
NaN == 2^30 + 1

\* an f64 the code holds exactly, and an enclosure of one it does not
Pt(v) == [lo |-> v, hi |-> v]
Iv(l, h) == [lo |-> l, hi |-> h]

IsNaN(a) == a.lo = NaN

\* an enclosure whose upper end is NaN holds its numbers and NaN as well:
\* AnyF64 is any f64, NaN included
AnyF64 == Iv(NegInf, NaN)
MayNaN(a) == a.hi = NaN

\* an enclosure that reaches an infinity (or NaN): arithmetic on it can
\* give any f64 (inf - inf and 0.0 * inf are NaN)
Unbounded(a) == a.lo <= NegInf \/ a.hi >= PosInf

\* the upper end of the numbers of an enclosure
Top(a) == IF MayNaN(a) THEN PosInf ELSE a.hi

\* whether v / Scale is an f64: the multiples of a quarter are
Exact(v) == (4 * v) % Scale = 0

\* the f64 of a decimal literal v / Scale: multiples of a quarter are exact
\* in binary, any other decimal is rounded to the nearest f64
F64(v) == IF Exact(v) THEN Pt(v) ELSE Iv(v - 1, v + 1)

Min2(a, b) == IF a < b THEN a ELSE b
Max2(a, b) == IF a > b THEN a ELSE b
SetMin(S) == CHOOSE m \in S : \A n \in S : m <= n
SetMax(S) == CHOOSE m \in S : \A n \in S : m >= n
CeilDiv(p, q) == -((-p) \div q)

\* floor(sqrt(n)) by bisection on [lo, hi), for n < 2^31
RECURSIVE IsqrtBetween(_, _, _)
IsqrtBetween(n, lo, hi) ==
    IF hi - lo <= 1 THEN lo
    ELSE LET mid == (lo + hi) \div 2
         IN IF mid * mid <= n THEN IsqrtBetween(n, mid, hi)
                              ELSE IsqrtBetween(n, lo, mid)

Isqrt(n) == IF n <= 0 THEN 0 ELSE IsqrtBetween(n, 0, 46341)

\* floor(sqrt(d)) for a digit string d < 2^62
RECURSIVE WideIsqrtBetween(_, _, _)
WideIsqrtBetween(d, lo, hi) ==
    IF hi - lo <= 1 THEN lo
    ELSE LET mid == lo + (hi - lo) \div 2
         IN IF LessWide(d, MulWide(Digits(mid), Digits(mid)))
            THEN WideIsqrtBetween(d, lo, mid)
            ELSE WideIsqrtBetween(d, mid, hi)

WideIsqrt(d) == WideIsqrtBetween(d, 0, 2147483647)

\* sqrt of an integer n < 2^31: the enclosure [floor, ceiling]
IntSqrt(n) ==
    LET r == Isqrt(n)
    IN IF r * r = n THEN Pt(r) ELSE Iv(r, r + 1)

\* sqrt of a digit string: the enclosure [floor, ceiling]
WideSqrt(d) ==
    IF FitsU32(d) /\ d[4] < 128 THEN IntSqrt(ToInt(d))
    ELSE LET r == WideIsqrt(d)
         IN IF MulWide(Digits(r), Digits(r)) = d THEN Pt(r) ELSE Iv(r, r + 1)

\* sqrt(p*p + q*q) for integers p, q >= 0: the enclosure [floor, ceiling]
SqrtSumSq(p, q) ==
    IF p <= 30000 /\ q <= 30000
    THEN IntSqrt(p * p + q * q)
    ELSE WideSqrt(AddWide(MulWide(Digits(p), Digits(p)),
                          MulWide(Digits(q), Digits(q))))

\* the least and the greatest magnitude of an enclosure
AbsLo(a) == IF a.lo >= 0 THEN a.lo ELSE IF a.hi <= 0 THEN -a.hi ELSE 0
AbsHi(a) == Max2(-a.lo, a.hi)

\* (a*a + b*b).sqrt(); NaN when an operand is NaN
Norm(a, b) ==
    IF IsNaN(a) \/ IsNaN(b) THEN Pt(NaN)
    ELSE IF Unbounded(a) \/ Unbounded(b) THEN AnyF64
    ELSE Iv(SqrtSumSq(AbsLo(a), AbsLo(b)).lo, SqrtSumSq(AbsHi(a), AbsHi(b)).hi)

FAdd(a, b) ==
    IF IsNaN(a) \/ IsNaN(b) THEN Pt(NaN)
    ELSE IF Unbounded(a) \/ Unbounded(b) THEN AnyF64
    ELSE Iv(Min2(a.lo + b.lo, F64Max), Min2(a.hi + b.hi, F64Max))

FSub(a, b) ==
    IF IsNaN(a) \/ IsNaN(b) THEN Pt(NaN)
    ELSE IF Unbounded(a) \/ Unbounded(b) THEN AnyF64
    ELSE Iv(a.lo - b.hi, a.hi - b.lo)

FNeg(a) ==
    IF IsNaN(a) THEN Pt(NaN)
    ELSE IF Unbounded(a) THEN AnyF64
    ELSE Iv(-a.hi, -a.lo)

FAbs(a) ==
    IF IsNaN(a) THEN Pt(NaN)
    ELSE IF Unbounded(a) THEN AnyF64
    ELSE Iv(AbsLo(a), AbsHi(a))

\* the products of the ends of two enclosures
EndProducts(a, b) == {a.lo * b.lo, a.lo * b.hi, a.hi * b.lo, a.hi * b.hi}

\* a * b of two values in Scale units, in Scale units
FMul(a, b) ==
    IF IsNaN(a) \/ IsNaN(b) THEN Pt(NaN)
    ELSE IF Unbounded(a) \/ Unbounded(b) THEN AnyF64
    ELSE Iv(SetMin(EndProducts(a, b)) \div Scale,
            CeilDiv(SetMax(EndProducts(a, b)), Scale))

\* a * b of two values in Scale units, in units of Scale * Scale (no rounding)
RawMul(a, b) ==
    IF IsNaN(a) \/ IsNaN(b) THEN Pt(NaN)
    ELSE IF Unbounded(a) \/ Unbounded(b) THEN AnyF64
    ELSE Iv(SetMin(EndProducts(a, b)), SetMax(EndProducts(a, b)))

\* a * a in units of Scale * Scale
RawSq(a) ==
    IF IsNaN(a) THEN Pt(NaN)
    ELSE IF Unbounded(a) THEN AnyF64
    ELSE Iv(AbsLo(a) * AbsLo(a), AbsHi(a) * AbsHi(a))

\* the f64 quotients of the real quotients between l and h: the division
\* rounds to the nearest f64, so an end that is an f64 is kept, and an end
\* that is not (1/5 or 3/10, say) can be passed by the rounded quotient
Quotient(l, h) ==
    Iv(IF Exact(l) THEN l ELSE l - 1, IF Exact(h) THEN h ELSE h + 1)

\* whether 0.0 is among the values of an enclosure
HasZero(a) == a.lo <= 0 /\ 0 <= a.hi

\* n / d of two values carrying the same unit, in Scale units: 0.0 / 0.0 is
\* NaN and x / 0.0 an infinity, so a divisor that may be 0.0 gives any
\* quotient, and NaN too when the numerator may be 0.0
FDiv(n, d) ==
    IF IsNaN(n) \/ IsNaN(d) THEN Pt(NaN)
    ELSE IF Unbounded(n) \/ Unbounded(d) THEN AnyF64
    ELSE IF d = Pt(0)
    THEN IF n = Pt(0) THEN Pt(NaN)
         ELSE IF n.lo > 0 THEN Pt(PosInf)
         ELSE IF n.hi < 0 THEN Pt(NegInf)
         ELSE AnyF64
    ELSE IF d.lo > 0
    THEN Quotient(Min2((n.lo * Scale) \div d.lo, (n.lo * Scale) \div d.hi),
                  Max2(CeilDiv(n.hi * Scale, d.lo), CeilDiv(n.hi * Scale, d.hi)))
    ELSE IF d.hi < 0
    THEN Quotient(Min2(((-n.hi) * Scale) \div (-d.lo), ((-n.hi) * Scale) \div (-d.hi)),
                  Max2(CeilDiv((-n.lo) * Scale, -d.lo), CeilDiv((-n.lo) * Scale, -d.hi)))
    ELSE IF HasZero(n) THEN AnyF64
    ELSE Iv(NegInf, PosInf)

\* f64::min and f64::max: when one argument is NaN the other is returned
FMin(a, b) ==
    IF IsNaN(a) THEN b ELSE IF IsNaN(b) THEN a
    ELSE Iv(Min2(a.lo, b.lo),
            IF MayNaN(a) /\ MayNaN(b) THEN NaN
            ELSE IF MayNaN(a) THEN b.hi
            ELSE IF MayNaN(b) THEN a.hi
            ELSE Min2(a.hi, b.hi))

FMax(a, b) ==
    IF IsNaN(a) THEN b ELSE IF IsNaN(b) THEN a
    ELSE Iv(IF MayNaN(a) /\ MayNaN(b) THEN Min2(a.lo, b.lo)
            ELSE IF MayNaN(a) THEN b.lo
            ELSE IF MayNaN(b) THEN a.lo
            ELSE Max2(a.lo, b.lo),
            IF MayNaN(a) /\ MayNaN(b) THEN NaN ELSE Max2(Top(a), Top(b)))

\* a clamp by comparisons, which lets a NaN through
ClampUnitByComparison(t) ==
    IF IsNaN(t) THEN Pt(NaN)
    ELSE Iv(Max2(0, Min2(t.lo, Scale)), Max2(0, Min2(t.hi, Scale)))

\* t.min(1.0).max(0.0)
ClampUnit(t) == FMax(FMin(t, Pt(Scale)), Pt(0))

\* the outcomes the comparison a < b can have; with a NaN it is false
Lt(a, b) ==
    IF IsNaN(a) \/ IsNaN(b) THEN {FALSE}
    ELSE IF MayNaN(a) \/ MayNaN(b) THEN BOOLEAN
    ELSE IF a.hi < b.lo THEN {TRUE}
    ELSE IF a.lo >= b.hi THEN {FALSE}
    ELSE BOOLEAN

\* the outcomes of a > b and of a >= b
Gt(a, b) == Lt(b, a)

Ge(a, b) ==
    IF IsNaN(a) \/ IsNaN(b) THEN {FALSE}
    ELSE IF MayNaN(a) \/ MayNaN(b) THEN BOOLEAN
    ELSE IF a.lo >= b.hi THEN {TRUE}
    ELSE IF a.hi < b.lo THEN {FALSE}
    ELSE BOOLEAN

\* a + b of two values in units of Scale * Scale
RawAdd(a, b) ==
    IF IsNaN(a) \/ IsNaN(b) THEN Pt(NaN)
    ELSE IF Unbounded(a) \/ Unbounded(b) THEN AnyF64
    ELSE Iv(a.lo + b.lo, a.hi + b.hi)

(***************************************************************************)
(* f64::cos and f64::sin, on the angles TWO_PI * a / AngleSteps            *)
(***************************************************************************)
sample_count == 64

\* round(1000 * cos(k * pi / 64)) for k = 0..32
CosTable ==
    <<1000, 999, 995, 989, 981, 970, 957, 942, 924, 904, 882, 858, 831, 803,
      773, 741, 707, 672, 634, 596, 556, 514, 471, 428, 383, 337, 290, 243,
      195, 147, 98, 49, 0>>

\* the angles of the model: multiples of TWO_PI / AngleSteps
AngleSteps == 2 * sample_count

\* round(1000 * cos(TWO_PI * a / AngleSteps))
CosMilli(a) ==
    LET k == a % AngleSteps
        q == AngleSteps \div 4
    IN IF k <= q THEN CosTable[k + 1]
       ELSE IF k <= 2 * q THEN -CosTable[2 * q - k + 1]
       ELSE IF k <= 3 * q THEN -CosTable[k - 2 * q + 1]
       ELSE CosTable[4 * q - k + 1]

\* the enclosure, in Scale units, of the cosines between lo and hi thousandths
FromMilli(lo, hi) ==
    Iv(Max2(-Scale, ((lo - 1) * Scale) \div 1000),
       Min2(Scale, CeilDiv((hi + 1) * Scale, 1000)))

\* degree.cos() and degree.sin() for degree = TWO_PI * a / AngleSteps; only
\* cos(0.0) and sin(0.0) are exact
CosAt(a) ==
    IF a = 0 THEN Pt(Scale) ELSE FromMilli(CosMilli(a), CosMilli(a))

SinAt(a) ==
    IF a = 0 THEN Pt(0)
    ELSE FromMilli(CosMilli(a + 3 * (AngleSteps \div 4)),
                   CosMilli(a + 3 * (AngleSteps \div 4)))

\* degree.cos() and degree.sin() for any degree in
\* TWO_PI * [a, a + 1] / AngleSteps; cos and sin are monotone there
CosOver(a) ==
    FromMilli(Min2(CosMilli(a), CosMilli(a + 1)),
              Max2(CosMilli(a), CosMilli(a + 1)))

SinOver(a) == CosOver(a + 3 * (AngleSteps \div 4))

(***************************************************************************)
(* shape.rs: SdfResult and the primitives.  The constructors take decimal  *)
(* literals in Scale units; the query point (x, y) is a pair of f64 values.*)
(***************************************************************************)
SdfResult(sd, emissive) == [sd |-> sd, emissive |-> emissive]

Circle(ox, oy, r, emissive) ==
    [kind |-> "Circle", ox |-> F64(ox), oy |-> F64(oy), r |-> F64(r),
     emissive |-> F64(emissive)]

Plane(px, py, nx, ny, emissive) ==
    [kind |-> "Plane", px |-> F64(px), py |-> F64(py), nx |-> F64(nx),
     ny |-> F64(ny), emissive |-> F64(emissive)]

Capsule(ax, ay, bx, by, r, emissive) ==
    [kind |-> "Capsule", ax |-> F64(ax), ay |-> F64(ay), bx |-> F64(bx),
     by |-> F64(by), r |-> F64(r), emissive |-> F64(emissive)]

\* theta is given as the index a of the angle TWO_PI * a / AngleSteps
Rect(cx, cy, theta, sx, sy, emissive) ==
    [kind |-> "Rect", cx |-> F64(cx), cy |-> F64(cy), theta |-> theta,
     sx |-> F64(sx), sy |-> F64(sy), emissive |-> F64(emissive), r |-> Pt(0)]

Triangle(ax, ay, bx, by, cx, cy, emissive) ==
    [kind |-> "Triangle", ax |-> F64(ax), ay |-> F64(ay), bx |-> F64(bx),
     by |-> F64(by), cx |-> F64(cx), cy |-> F64(cy),
     emissive |-> F64(emissive), r |-> Pt(0)]

CircleSdf(s, x, y) ==
    LET ux == FSub(x, s.ox)
        uy == FSub(y, s.oy)
        sd == FSub(Norm(ux, uy), s.r)
    IN SdfResult(sd, s.emissive)

PlaneSdf(s, x, y) ==
    SdfResult(FAdd(FMul(FSub(x, s.px), s.nx), FMul(FSub(y, s.py), s.ny)),
              s.emissive)

\* the divisor ux*ux + uy*uy of the segment projection
SegmentDivisor(ax, ay, bx, by) ==
    LET ux == FSub(bx, ax)
        uy == FSub(by, ay)
    IN RawAdd(RawSq(ux), RawSq(uy))

CapsuleSdf(s, x, y) ==
    LET vx == FSub(x, s.ax)
        vy == FSub(y, s.ay)
        ux == FSub(s.bx, s.ax)
        uy == FSub(s.by, s.ay)
        t == ClampUnit(FDiv(RawAdd(RawMul(vx, ux), RawMul(vy, uy)),
                            RawAdd(RawSq(ux), RawSq(uy))))
        dx == FSub(vx, FMul(ux, t))
        dy == FSub(vy, FMul(uy, t))
        segment_sd == Norm(dx, dy)
        capsule_sd == FSub(segment_sd, s.r)
    IN SdfResult(capsule_sd, s.emissive)

RectSdf(s, x, y) ==
    LET sin_theta == SinAt(s.theta)
        cos_theta == CosAt(s.theta)
        dx == FSub(FAbs(FAdd(FMul(FSub(x, s.cx), cos_theta),
                             FMul(FSub(y, s.cy), sin_theta))), s.sx)
        dy == FSub(FAbs(FSub(FMul(FSub(y, s.cy), cos_theta),
                             FMul(FSub(x, s.cx), sin_theta))), s.sy)
        ax == FMax(dx, Pt(0))
        ay == FMax(dy, Pt(0))
        sd == FAdd(FMin(FMax(dx, dy), Pt(0)), Norm(ax, ay))
    IN SdfResult(sd, s.emissive)

segment_sdf(x, y, ax, ay, bx, by) ==
    LET vx == FSub(x, ax)
        vy == FSub(y, ay)
        ux == FSub(bx, ax)
        uy == FSub(by, ay)
        t == ClampUnit(FDiv(RawAdd(RawMul(vx, ux), RawMul(vy, uy)),
                            RawAdd(RawSq(ux), RawSq(uy))))
        dx == FSub(vx, FMul(ux, t))
        dy == FSub(vy, FMul(uy, t))
    IN Norm(dx, dy)

\* the samples Triangle::sdf can return: one for each outcome of the sign test
TriangleSdf(s, x, y) ==
    LET result1 == segment_sdf(x, y, s.ax, s.ay, s.bx, s.by)
        result2 == segment_sdf(x, y, s.bx, s.by, s.cx, s.cy)
        result3 == segment_sdf(x, y, s.cx, s.cy, s.ax, s.ay)
        sd == FMin(FMin(result1, result2), result3)
        test1 == Gt(RawMul(FSub(s.bx, s.ax), FSub(y, s.ay)),
                    RawMul(FSub(s.by, s.ay), FSub(x, s.ax)))
        test2 == Gt(RawMul(FSub(s.cx, s.bx), FSub(y, s.by)),
                    RawMul(FSub(s.cy, s.by), FSub(x, s.bx)))
        test3 == Gt(RawMul(FSub(s.ax, s.cx), FSub(y, s.cy)),
                    RawMul(FSub(s.ay, s.cy), FSub(x, s.cx)))
        inside == {c1 /\ c2 /\ c3 : c1 \in test1, c2 \in test2, c3 \in test3}
    IN {SdfResult(IF c THEN FNeg(sd) ELSE sd, s.emissive) : c \in inside}

(***************************************************************************)
(* shape.rs: the boolean combinators and the dispatch of Shape::sdf.       *)
(* Each returns the set of the samples the call can return.                *)
(***************************************************************************)
UnionShape(shape1, shape2) ==
    [kind |-> "Union", shape1 |-> shape1, shape2 |-> shape2]

IntersectShape(shape1, shape2) ==
    [kind |-> "Intersect", shape1 |-> shape1, shape2 |-> shape2]

SubtractShape(shape1, shape2) ==
    [kind |-> "Subtract", shape1 |-> shape1, shape2 |-> shape2]

RECURSIVE ShapeSdf(_, _, _)

\* a union that keeps the farther child
UnionSdfFarther(s1, s2, x, y) ==
    UNION { {IF c THEN result1 ELSE result2 : c \in Gt(result1.sd, result2.sd)} :
            result1 \in ShapeSdf(s1, x, y), result2 \in ShapeSdf(s2, x, y) }

UnionSdf(s1, s2, x, y) ==
    UNION { {IF c THEN result1 ELSE result2 : c \in Lt(result1.sd, result2.sd)} :
            result1 \in ShapeSdf(s1, x, y), result2 \in ShapeSdf(s2, x, y) }

IntersectSdf(s1, s2, x, y) ==
    UNION { {IF c THEN [result2 EXCEPT !.sd = result1.sd]
                  ELSE [result1 EXCEPT !.sd = result2.sd] :
             c \in Gt(result1.sd, result2.sd)} :
            result1 \in ShapeSdf(s1, x, y), result2 \in ShapeSdf(s2, x, y) }

\* a subtraction that returns the sample of whichever child dominates
SubtractSdfDominant(s1, s2, x, y) ==
    UNION { {IF c THEN result1 ELSE [result2 EXCEPT !.sd = FNeg(result2.sd)] :
             c \in Gt(result1.sd, FNeg(result2.sd))} :
            result1 \in ShapeSdf(s1, x, y), result2 \in ShapeSdf(s2, x, y) }

SubtractSdf(s1, s2, x, y) ==
    UNION { {[result1 EXCEPT !.sd = IF c THEN result1.sd ELSE FNeg(result2.sd)] :
             c \in Gt(result1.sd, FNeg(result2.sd))} :
            result1 \in ShapeSdf(s1, x, y), result2 \in ShapeSdf(s2, x, y) }

\* dynamic dispatch of Shape::sdf over its eight implementations
ShapeSdf(s, x, y) ==
    CASE s.kind = "Union" -> UnionSdf(s.shape1, s.shape2, x, y)
      [] s.kind = "Intersect" -> IntersectSdf(s.shape1, s.shape2, x, y)
      [] s.kind = "Subtract" -> SubtractSdf(s.shape1, s.shape2, x, y)
      [] s.kind = "Circle" -> {CircleSdf(s, x, y)}
      [] s.kind = "Plane" -> {PlaneSdf(s, x, y)}
      [] s.kind = "Capsule" -> {CapsuleSdf(s, x, y)}
      [] s.kind = "Rect" -> {RectSdf(s, x, y)}
      [] s.kind = "Triangle" -> TriangleSdf(s, x, y)

(***************************************************************************)
(* scene.rs: the scene's distance field, a fold of union_sd over circles   *)
(***************************************************************************)
union_sd(result_a, result_b) ==
    {IF c THEN result_a ELSE result_b : c \in Lt(result_a.sd, result_b.sd)}

\* results: the samples the fold can hold before the k-th shape
RECURSIVE SceneSdfFrom(_, _, _, _, _)
SceneSdfFrom(shapes, k, results, x, y) ==
    IF k > Len(shapes) THEN results
    ELSE SceneSdfFrom(shapes, k + 1,
                      UNION {union_sd(CircleSdf(shapes[k], x, y), result) :
                             result \in results},
                      x, y)

SceneSdf(shapes, x, y) ==
    SceneSdfFrom(shapes, 1, {SdfResult(Pt(F64Max), Pt(0))}, x, y)

(***************************************************************************)
(* scene.rs: Scene::trace, the sphere-tracing march of one sample          *)
(***************************************************************************)
max_step == 10

\* EPSILON = 1e-6, as its inverse
EpsilonInverse == 1000000

\* the outcomes of result.sd < EPSILON, that is of
\* sd * EpsilonInverse < Scale for the sd enclosed
BelowEpsilon(sd) ==
    IF IsNaN(sd) THEN {FALSE}
    ELSE IF MayNaN(sd) THEN BOOLEAN
    ELSE IF sd.hi <= (Scale - 1) \div EpsilonInverse THEN {TRUE}
    ELSE IF sd.lo >= CeilDiv(Scale, EpsilonInverse) THEN {FALSE}
    ELSE BOOLEAN

\* ((self.width.pow(2) + self.width.pow(2)) as f64).sqrt(): the power and
\* the sum are u32; with overflow checks (a debug build) an overflow
\* panics, without them it wraps
MaxDistance(width, overflow_checks) ==
    LET square == MulWide(Digits(width), Digits(width))
        total == AddWide(WrapU32(square), WrapU32(square))
        overflow == ~FitsU32(square) \/ ~FitsU32(total)
    IN [panic |-> overflow_checks /\ overflow,
        value |-> WideSqrt(MulWide(WrapU32(total), Digits(Scale * Scale)))]

\* a call of trace before its first statement; trail lists the samples
\* queried, each with the outcome of its comparison with EPSILON
MarchEntry ==
    [state |-> "Entry", distance |-> Pt(0), step |-> 0, contribution |-> Pt(0),
     trail |-> <<>>, limit |-> Pt(0)]

\* lines 68 and 70: max_distance is computed, then distance = 0.0
TraceEnter(width, overflow_checks) ==
    LET max_distance == MaxDistance(width, overflow_checks)
    IN IF max_distance.panic
       THEN [MarchEntry EXCEPT !.state = "Panicked"]
       ELSE [MarchEntry EXCEPT !.state = "Marching",
                               !.limit = max_distance.value]

Queried(m, result, below) ==
    [m EXCEPT !.trail = Append(@, [sd |-> result.sd,
                                   emissive |-> result.emissive,
                                   below |-> below])]

\* an iteration that returns a fixed light 2.0 on a hit
TraceIterFixedLight(shapes, x, y, dx, dy, m) ==
    IF m.step >= max_step
    THEN {[m EXCEPT !.state = "Miss", !.contribution = Pt(0)]}
    ELSE UNION { UNION {
           LET distance == FAdd(m.distance, result.sd)
           IN IF below
              THEN {[Queried(m, result, below) EXCEPT
                        !.state = "Hit", !.contribution = Pt(2 * Scale)]}
              ELSE {IF reached
                    THEN [Queried(m, result, below) EXCEPT
                             !.state = "Miss", !.contribution = Pt(0),
                             !.distance = distance]
                    ELSE [Queried(m, result, below) EXCEPT
                             !.distance = distance, !.step = m.step + 1] :
                    reached \in Ge(distance, m.limit)} :
           below \in BelowEpsilon(result.sd)} :
         result \in SceneSdf(shapes, FAdd(x, FMul(dx, m.distance)),
                             FAdd(y, FMul(dy, m.distance)))}

\* the marches one iteration of the loop of Scene::trace can lead to from
\* the march m, or the exit of the loop when the steps are used up; (x, y)
\* is the pixel, (dx, dy) the direction
TraceIter(shapes, x, y, dx, dy, m) ==
    IF m.step >= max_step
    THEN {[m EXCEPT !.state = "Miss", !.contribution = Pt(0)]}
    ELSE UNION { UNION {
           LET distance == FAdd(m.distance, result.sd)
           IN IF below
              THEN {[Queried(m, result, below) EXCEPT
                        !.state = "Hit", !.contribution = result.emissive]}
              ELSE {IF reached
                    THEN [Queried(m, result, below) EXCEPT
                             !.state = "Miss", !.contribution = Pt(0),
                             !.distance = distance]
                    ELSE [Queried(m, result, below) EXCEPT
                             !.distance = distance, !.step = m.step + 1] :
                    reached \in Ge(distance, m.limit)} :
           below \in BelowEpsilon(result.sd)} :
         result \in SceneSdf(shapes, FAdd(x, FMul(dx, m.distance)),
                             FAdd(y, FMul(dy, m.distance)))}

\* the marches the loop can end in, from the marches ms
RECURSIVE TraceFrom(_, _, _, _, _, _)
TraceFrom(shapes, x, y, dx, dy, ms) ==
    IF \A m \in ms : m.state # "Marching" THEN ms
    ELSE TraceFrom(shapes, x, y, dx, dy,
                   {m \in ms : m.state # "Marching"}
                   \cup UNION {TraceIter(shapes, x, y, dx, dy, m) :
                               m \in {n \in ms : n.state = "Marching"}})

\* the outcome of a call that panics
Panicked == [panic |-> TRUE]

\* Scene::trace: the values the call can return for the light the point
\* (x, y) gets from the direction (dx, dy), or Panicked
trace(shapes, width, x, y, dx, dy, overflow_checks) ==
    LET entered == TraceEnter(width, overflow_checks)
    IN IF entered.state = "Panicked" THEN {Panicked}
       ELSE {m.contribution : m \in TraceFrom(shapes, x, y, dx, dy, {entered})}

(***************************************************************************)
(* scene.rs: Scene::new, add_shape, render_to_file, sample, save_to_file   *)
(***************************************************************************)
\* ((y * self.width + x) * 3) as usize, in u32 arithmetic: with overflow
\* checks (a debug build) an overflow panics, without them it wraps
PixelIndex(x, y, width, overflow_checks) ==
    LET prod == MulWide(Digits(y), Digits(width))
        total == AddWide(WrapU32(prod), Digits(x))
        tripled == MulWide(WrapU32(total), Digits(3))
        overflow == ~FitsU32(prod) \/ ~FitsU32(total) \/ ~FitsU32(tripled)
    IN [panic |-> overflow_checks /\ overflow, index |-> WrapU32(tripled)]

\* self.width as usize * self.height as usize * 3
BufferLen(width, height) ==
    MulWide(MulWide(Digits(width), Digits(height)), Digits(3))

\* f64 as u8 of the value v / Scale: truncates, saturates at 0 and 255
AsU8(v) ==
    IF v < 0 THEN 0
    ELSE IF v \div Scale > 255 THEN 255
    ELSE v \div Scale

\* the C-style conversion, which wraps modulo 256
SampleByteWrapping(sum) ==
    IF IsNaN(sum) THEN {0}
    ELSE IF Unbounded(sum) THEN 0..255
    ELSE {((v * 255) \div (sample_count * Scale)) % 256 : v \in sum.lo..sum.hi}

\* the end of Scene::sample: sum / sample_count * 255.0, capped, as u8;
\* the bytes it can return for the sum enclosed
SampleByte(sum) ==
    IF IsNaN(sum) THEN {0}
    ELSE IF Unbounded(sum) THEN 0..255
    ELSE {LET scaled == (v * 255) \div sample_count
          IN AsU8(IF scaled >= 255 * Scale THEN 255 * Scale ELSE scaled) :
          v \in sum.lo..sum.hi}

\* rng.gen_range(0.0..1.0): the draw u lies in [0, 1/2] or in [1/2, 1),
\* the halves 0 and 1 of the angular bucket of a sample
Jitters == {0, 1}

\* one iteration of the loop of Scene::sample: the contributions sample i
\* can make when its draw lies in the half u
SampleContribution(sc, x, y, i, u, overflow_checks) ==
    trace(sc.shapes, sc.width, Pt(x * Scale), Pt(y * Scale),
          CosOver(2 * i + u), SinOver(2 * i + u), overflow_checks)

NoResult == [none |-> TRUE]

NoPixel == [x |-> 0, y |-> 0, i |-> 0, sum |-> Pt(0), index |-> 0]
\* nothing done yet to the file at path, nothing handed to the encoder
NoFile == [removed |-> FALSE, created |-> FALSE, sink |-> NoResult]

\* the Scene's variables in the specifications that make no Scene
RenderIdle ==
    /\ scene = [width |-> 0, height |-> 0, shapes |-> <<>>]
    /\ pc = "idle"
    /\ cur = NoPixel
    /\ image = <<>>
    /\ sampled = <<>>
    /\ fs = NoFile

(***************************************************************************)
(* The pure-function specification of shape.rs and of Scene::sdf:          *)
(* Init draws the arguments of one call, the action makes the call.        *)
(***************************************************************************)
Coords == {c * Scale : c \in -Grid..Grid}

\* vertices of segments and triangles
VertexCoords == {-Grid * Scale, 0, Grid * Scale}

PrimitiveShapes ==
    { Circle(0, 0, Scale, 2 * Scale),
      Circle(Scale, 0, 2 * Scale, (8 * Scale) \div 10),
      Plane(0, 0, Scale, 0, Scale \div 2),
      Plane(0, Scale, 0, -Scale, Scale),
      Capsule(-Scale, 0, Scale, 0, Scale \div 2, Scale),
      Rect(0, 0, 0, Scale, Scale \div 2, (3 * Scale) \div 2),
      Rect(Scale, 0, 16, Scale, Scale, Scale \div 4),
      Triangle(0, 0, 2 * Scale, 0, 0, 2 * Scale, 3 * Scale) }

\* the children of a combinator: primitives and combinators of primitives
ChildShapes ==
    PrimitiveShapes \cup
    { UnionShape(Circle(0, 0, Scale, 2 * Scale),
                 Circle(Scale, 0, 2 * Scale, (8 * Scale) \div 10)),
      IntersectShape(Circle(Scale, 0, 2 * Scale, (8 * Scale) \div 10),
                     Plane(0, Scale, 0, -Scale, Scale)),
      SubtractShape(Rect(0, 0, 0, Scale, Scale \div 2, (3 * Scale) \div 2),
                    Capsule(-Scale, 0, Scale, 0, Scale \div 2, Scale)) }

SceneCircles ==
    { Circle(0, 0, Scale, 2 * Scale),
      Circle(Scale, 0, 2 * Scale, (8 * Scale) \div 10),
      Circle(-Scale, Scale, Scale \div 2, Scale \div 2) }

\* the shape lists add_shape can build, up to two circles
SceneLists ==
    {<<>>} \cup {<<a>> : a \in SceneCircles}
           \cup {<<a, b>> : a \in SceneCircles, b \in SceneCircles}

CombinatorKinds == {"union", "intersect", "subtract"}

InitCombinator ==
    \E k \in CombinatorKinds, a \in ChildShapes, b \in ChildShapes,
       x \in Coords, y \in Coords :
        inp = [kind |-> k, shape1 |-> a, shape2 |-> b,
               x |-> F64(x), y |-> F64(y)]

InitSceneSdf ==
    \E l \in SceneLists, x \in Coords, y \in Coords :
        inp = [kind |-> "scene_sdf", shapes |-> l, x |-> F64(x), y |-> F64(y)]

InitSegment ==
    \E ax \in VertexCoords, ay \in VertexCoords,
       bx \in VertexCoords, by \in VertexCoords,
       x \in Coords, y \in Coords :
        \/ inp = [kind |-> "segment_sdf", ax |-> F64(ax), ay |-> F64(ay),
                  bx |-> F64(bx), by |-> F64(by), x |-> F64(x), y |-> F64(y)]
        \/ inp = [kind |-> "capsule",
                  shape |-> Capsule(ax, ay, bx, by, Scale \div 2, Scale),
                  x |-> F64(x), y |-> F64(y)]

InitTriangle ==
    \E ax \in VertexCoords, ay \in VertexCoords,
       bx \in VertexCoords, by \in VertexCoords,
       cx \in VertexCoords, cy \in VertexCoords,
       x \in Coords, y \in Coords :
        inp = [kind |-> "triangle",
               shape |-> Triangle(ax, ay, bx, by, cx, cy, Scale),
               x |-> F64(x), y |-> F64(y)]

InitRect ==
    \E cx \in {0, Scale}, theta \in {0, 16, 37}, sy \in {Scale \div 2, Scale},
       x \in Coords, y \in Coords :
        inp = [kind |-> "rect",
               shape |-> Rect(cx, 0, theta, Scale, sy, Scale),
               x |-> F64(x), y |-> F64(y)]

InitShape ==
    /\ InitCombinator \/ InitSceneSdf \/ InitSegment \/ InitTriangle \/ InitRect
    /\ out = NoResult
    /\ march = MarchEntry
    /\ RenderIdle

CallUnion ==
    /\ inp.kind = "union" /\ out = NoResult
    /\ out' \in UnionSdf(inp.shape1, inp.shape2, inp.x, inp.y)
    /\ UNCHANGED <<inp, march, renderVars>>

CallIntersect ==
    /\ inp.kind = "intersect" /\ out = NoResult
    /\ out' \in IntersectSdf(inp.shape1, inp.shape2, inp.x, inp.y)
    /\ UNCHANGED <<inp, march, renderVars>>

CallSubtract ==
    /\ inp.kind = "subtract" /\ out = NoResult
    /\ out' \in SubtractSdf(inp.shape1, inp.shape2, inp.x, inp.y)
    /\ UNCHANGED <<inp, march, renderVars>>

CallSceneSdf ==
    /\ inp.kind = "scene_sdf" /\ out = NoResult
    /\ out' \in SceneSdf(inp.shapes, inp.x, inp.y)
    /\ UNCHANGED <<inp, march, renderVars>>

\* the call records, beside the distance, the divisor it divided by
CallSegmentSdf ==
    /\ inp.kind = "segment_sdf" /\ out = NoResult
    /\ out' = [sd |-> segment_sdf(inp.x, inp.y, inp.ax, inp.ay, inp.bx, inp.by),
               divisor |-> SegmentDivisor(inp.ax, inp.ay, inp.bx, inp.by)]
    /\ UNCHANGED <<inp, march, renderVars>>

CallCapsuleSdf ==
    /\ inp.kind = "capsule" /\ out = NoResult
    /\ out' = [sd |-> CapsuleSdf(inp.shape, inp.x, inp.y).sd,
               emissive |-> CapsuleSdf(inp.shape, inp.x, inp.y).emissive,
               divisor |-> SegmentDivisor(inp.shape.ax, inp.shape.ay,
                                          inp.shape.bx, inp.shape.by)]
    /\ UNCHANGED <<inp, march, renderVars>>

CallTriangleSdf ==
    /\ inp.kind = "triangle" /\ out = NoResult
    /\ out' \in TriangleSdf(inp.shape, inp.x, inp.y)
    /\ UNCHANGED <<inp, march, renderVars>>

CallRectSdf ==
    /\ inp.kind = "rect" /\ out = NoResult
    /\ out' = RectSdf(inp.shape, inp.x, inp.y)
    /\ UNCHANGED <<inp, march, renderVars>>

NextShape ==
    \/ CallUnion
    \/ CallIntersect
    \/ CallSubtract
    \/ CallSceneSdf
    \/ CallSegmentSdf
    \/ CallCapsuleSdf
    \/ CallTriangleSdf
    \/ CallRectSdf

SpecShape == InitShape /\ [][NextShape]_vars

(***************************************************************************)
(* The specification of Scene::trace: Init draws a scene, a pixel and a    *)
(* direction; the first action is the entry of the call, each further one  *)
(* an iteration of the loop.                                               *)
(***************************************************************************)
\* the largest number of pixels of an image
MaxPixels == 4

\* the image sizes Scene::new is called with; either side may be 0
ImageSizes ==
    {wh \in (0..MaxPixels) \X (0..MaxPixels) : wh[1] * wh[2] <= MaxPixels}

\* widths at which width^2 + width^2, and width^2, reach 2^32
HugeWidths == {46340, 46341, 65535, 65536}

Angles == 0..(AngleSteps - 1)

\* the directions along the axes, which are exact
AxisDirections ==
    { <<Pt(Scale), Pt(0)>>, <<Pt(0), Pt(Scale)>>,
      <<Pt(-Scale), Pt(0)>>, <<Pt(0), Pt(-Scale)>> }

\* the directions Scene::sample passes: for each half of an angular bucket,
\* the enclosure of the (cos, sin) of its angles
Directions == AxisDirections \cup {<<CosOver(a), SinOver(a)>> : a \in Angles}

TraceCircles ==
    { Circle(Scale, Scale, Scale \div 2, 2 * Scale),
      Circle(4 * Scale, Scale, Scale, (8 * Scale) \div 10),
      Circle(Scale, -Scale, (3 * Scale) \div 4, Scale \div 4) }

\* the shape lists of the scenes traced: up to two different circles
TraceLists ==
    {<<>>} \cup {<<a>> : a \in TraceCircles}
           \cup {ab \in TraceCircles \X TraceCircles : ab[1] # ab[2]}

InitTrace ==
    /\ \/ \E wh \in ImageSizes, l \in TraceLists, d \in Directions :
            \E x \in 0..(wh[1] - 1), y \in 0..(wh[2] - 1) :
               inp = [kind |-> "trace", width |-> wh[1], height |-> wh[2],
                      shapes |-> l, x |-> Pt(x * Scale), y |-> Pt(y * Scale),
                      dx |-> d[1], dy |-> d[2]]
       \/ \E w \in HugeWidths, c \in TraceCircles, d \in AxisDirections :
               inp = [kind |-> "trace", width |-> w, height |-> 1,
                      shapes |-> <<c>>, x |-> Pt(0), y |-> Pt(0),
                      dx |-> d[1], dy |-> d[2]]
    /\ out = NoResult
    /\ march = MarchEntry
    /\ RenderIdle

\* the entry of the call: max_distance is computed, in either build
TraceBegin ==
    /\ inp.kind = "trace" /\ march.state = "Entry"
    /\ \E overflow_checks \in BOOLEAN :
         /\ march' = TraceEnter(inp.width, overflow_checks)
         /\ out' = IF march'.state = "Panicked" THEN Panicked ELSE out
    /\ UNCHANGED <<inp, renderVars>>

NextMarch ==
    TraceIter(inp.shapes, inp.x, inp.y, inp.dx, inp.dy, march)

\* an iteration whose query is below EPSILON: return result.emissive
TraceHit ==
    /\ inp.kind = "trace" /\ march.state = "Marching" /\ march.step < max_step
    /\ \E m \in NextMarch :
         /\ m.state = "Hit"
         /\ march' = m
         /\ out' = m.contribution
    /\ UNCHANGED <<inp, renderVars>>

\* an iteration that advances and goes on
TraceAdvance ==
    /\ inp.kind = "trace" /\ march.state = "Marching" /\ march.step < max_step
    /\ \E m \in NextMarch :
         /\ m.state = "Marching"
         /\ march' = m
    /\ UNCHANGED <<inp, out, renderVars>>

\* an iteration that advances to max_distance or beyond: break, return 0.0
TraceBreak ==
    /\ inp.kind = "trace" /\ march.state = "Marching" /\ march.step < max_step
    /\ \E m \in NextMarch :
         /\ m.state = "Miss"
         /\ march' = m
         /\ out' = Pt(0)
    /\ UNCHANGED <<inp, renderVars>>

\* the loop ends after max_step iterations: return 0.0
TraceExhausted ==
    /\ inp.kind = "trace" /\ march.state = "Marching" /\ march.step >= max_step
    /\ march' \in NextMarch
    /\ out' = Pt(0)
    /\ UNCHANGED <<inp, renderVars>>

NextTrace ==
    TraceBegin \/ TraceHit \/ TraceAdvance \/ TraceBreak \/ TraceExhausted

SpecTrace == InitTrace /\ [][NextTrace]_vars

(***************************************************************************)
(* The specification of a Scene's life: Scene::new, add_shape any number   *)
(* of times, then one render_to_file, whose pixel loop, sample loop and    *)
(* save_to_file are the steps.  The build (with or without overflow        *)
(* checks) is fixed from the start.                                        *)
(***************************************************************************)
MaxShapes == 1

RenderCircles ==
    { Circle(0, 0, Scale \div 4, 2 * Scale),
      Circle(6 * Scale, 0, Scale \div 2, Scale \div 2) }

\* Scene::new(width, height): any u32 pair is accepted
Init ==
    /\ \E wh \in ImageSizes :
         scene = [width |-> wh[1], height |-> wh[2], shapes |-> <<>>]
    /\ pc = "built"
    /\ cur = NoPixel
    /\ image = <<>>
    /\ sampled = <<>>
    /\ fs = NoFile
    /\ \E c \in BOOLEAN : inp = [kind |-> "render", overflow_checks |-> c]
    /\ out = NoResult
    /\ march = MarchEntry

AddShape ==
    /\ pc = "built" /\ Len(scene.shapes) < MaxShapes
    /\ \E c \in RenderCircles : scene' = [scene EXCEPT !.shapes = Append(@, c)]
    /\ UNCHANGED <<inp, out, march, pc, cur, image, sampled, fs>>

\* the head of the loop body for pixel (x, y): the index is computed first
EnterPixel(x, y) ==
    LET at == PixelIndex(x, y, scene.width, inp.overflow_checks)
    IN IF at.panic
       THEN pc' = "panicked" /\ cur' = cur
       ELSE /\ pc' = "sample"
            /\ cur' = [x |-> x, y |-> y, i |-> 0, sum |-> Pt(0),
                       index |-> ToInt(at.index)]

\* render_to_file: allocate the buffer and enter the loops
RenderBegin ==
    /\ pc = "built"
    /\ image' = [k \in 0..(ToInt(BufferLen(scene.width, scene.height)) - 1) |-> 0]
    /\ IF scene.width = 0 \/ scene.height = 0
       THEN pc' = "save" /\ cur' = cur
       ELSE EnterPixel(0, 0)
    /\ UNCHANGED <<inp, out, march, scene, sampled, fs>>

\* Scene::sample, one iteration: a jittered direction and its trace
SampleStep ==
    /\ pc = "sample" /\ cur.i < sample_count
    /\ \E u \in Jitters :
         \E c \in SampleContribution(scene, cur.x, cur.y, cur.i, u,
                                     inp.overflow_checks) :
            IF c = Panicked
            THEN pc' = "panicked" /\ cur' = cur
            ELSE pc' = pc /\ cur' = [cur EXCEPT !.i = @ + 1,
                                                !.sum = FAdd(@, c)]
    /\ UNCHANGED <<inp, out, march, scene, image, sampled, fs>>

\* the end of Scene::sample and the rest of the loop body: the three
\* stores, then the next y, the next x, or save_to_file
StorePixel ==
    /\ pc = "sample" /\ cur.i = sample_count
    /\ \E value \in SampleByte(cur.sum) :
       LET k == cur.index
           seen == IF <<cur.x, cur.y>> \in DOMAIN sampled
                   THEN sampled[<<cur.x, cur.y>>].count ELSE 0
       IN IF k + 2 \in DOMAIN image
          THEN /\ image' = [image EXCEPT ![k] = value, ![k + 1] = value,
                                         ![k + 2] = value]
               /\ sampled' = [p \in DOMAIN sampled \cup {<<cur.x, cur.y>>} |->
                                IF p = <<cur.x, cur.y>>
                                THEN [count |-> seen + 1, sum |-> cur.sum,
                                      offset |-> k]
                                ELSE sampled[p]]
               /\ IF cur.y + 1 < scene.height
                  THEN EnterPixel(cur.x, cur.y + 1)
                  ELSE IF cur.x + 1 < scene.width
                  THEN EnterPixel(cur.x + 1, 0)
                  ELSE pc' = "save" /\ cur' = cur
          ELSE /\ pc' = "panicked"
               /\ UNCHANGED <<cur, image, sampled>>
    /\ UNCHANGED <<inp, out, march, scene, fs>>

\* save_to_file: remove_file (best effort), File::create, the png header,
\* write_image_data; each unwrap panics when the file system or png fails
SaveToFile ==
    /\ pc = "save"
    /\ \E existed \in BOOLEAN,
          outcome \in {"ok", "create_failed", "header_failed", "write_failed"} :
         /\ fs' = [removed |-> existed,
                   created |-> outcome # "create_failed",
                   sink |-> IF outcome \in {"ok", "write_failed"}
                            THEN image ELSE NoResult]
         /\ pc' = IF outcome = "ok" THEN "done" ELSE "panicked"
    /\ UNCHANGED <<inp, out, march, scene, cur, image, sampled>>

Next == AddShape \/ RenderBegin \/ SampleStep \/ StorePixel \/ SaveToFile

Spec == Init /\ [][Next]_vars

(***************************************************************************)
(* The pure-function specification of the loop body's index: Init draws    *)
(* an image size, a pixel of it and the build profile.                     *)
(***************************************************************************)
\* image sizes, small and large (width, height)
IndexSizes ==
    { <<1, 1>>, <<2, 3>>, <<3, 2>>, <<512, 384>>, <<4096, 4096>>,
      <<40000, 35791>>, <<40000, 35792>>, <<65535, 65535>> }

InitIndex ==
    /\ \E wh \in IndexSizes, c \in BOOLEAN :
         \E x \in {0, wh[1] \div 2, wh[1] - 1}, y \in {0, wh[2] \div 2, wh[2] - 1} :
            inp = [kind |-> "index", width |-> wh[1], height |-> wh[2],
                   x |-> x, y |-> y, overflow_checks |-> c]
    /\ out = NoResult
    /\ march = MarchEntry
    /\ RenderIdle

\* lines 37 and 39-41 of the loop body: the index, then the three stores,
\* each bounds-checked against the buffer
CallPixelIndex ==
    /\ inp.kind = "index" /\ out = NoResult
    /\ LET at == PixelIndex(inp.x, inp.y, inp.width, inp.overflow_checks)
           len == BufferLen(inp.width, inp.height)
       IN out' = [panic |-> at.panic
                            \/ ~LessWide(AddWide(at.index, Digits(2)), len),
                  index |-> at.index,
                  len |-> len]
    /\ UNCHANGED <<inp, march, renderVars>>

NextIndex == CallPixelIndex

SpecIndex == InitIndex /\ [][NextIndex]_vars

(***************************************************************************)
(* Claims about shape.rs, checked under SpecShape.  A claim about f64      *)
(* values is stated of their enclosures: what the claim requires of the    *)
(* value must be possible for some value enclosed.                         *)
(***************************************************************************)
Returned == out # NoResult

\* the samples the children of the combinator can return at the query point
ChildA == ShapeSdf(inp.shape1, inp.x, inp.y)
ChildB == ShapeSdf(inp.shape2, inp.x, inp.y)

\* a < b for every pair of values enclosed, and a = b for some pair
DefLt(a, b) == Lt(a, b) = {TRUE}
MayBeEqual(a, b) == ~IsNaN(a) /\ ~IsNaN(b) /\ a.lo <= b.hi /\ b.lo <= a.hi

\* C1: when the children's distances differ, Intersect returns the larger
\* distance together with the emissive of the child that supplied it: the
\* sample returned is, whole, the sample of the child with the larger
\* distance.
C1_IntersectEmissiveOfMax ==
    (inp.kind = "intersect" /\ Returned) =>
        \E a \in ChildA, b \in ChildB :
            \/ MayBeEqual(a.sd, b.sd)
            \/ DefLt(b.sd, a.sd) /\ out = a
            \/ DefLt(a.sd, b.sd) /\ out = b

\* the samples of the circles of a shape list at the query point
SceneSamples == {CircleSdf(inp.shapes[k], inp.x, inp.y) : k \in DOMAIN inp.shapes}

\* C2: Union returns, whole, the sample of the child with the smaller
\* distance (no sample of the other child is definitely nearer); the
\* scene's fold returns the sample of a circle of its list whose distance
\* is the least of the list (and the initial sample (f64::MAX, 0) when the
\* list is empty).
C2_UnionReturnsNearestSample ==
    /\ (inp.kind = "union" /\ Returned) =>
          \E a \in ChildA, b \in ChildB :
              \/ out = a /\ ~DefLt(b.sd, a.sd)
              \/ out = b /\ ~DefLt(a.sd, b.sd)
    /\ (inp.kind = "scene_sdf" /\ Returned) =>
          IF inp.shapes = <<>>
          THEN out = SdfResult(Pt(F64Max), Pt(0))
          ELSE /\ out \in SceneSamples
               /\ \A s \in SceneSamples : ~DefLt(s.sd, out.sd)

\* the second child is definitely nearer and emits otherwise: it is returned
C2_Witness ==
    /\ inp.kind = "union" /\ Returned
    /\ \A a \in ChildA, b \in ChildB :
          DefLt(b.sd, a.sd) /\ a.emissive # b.emissive
    /\ out \in ChildB

\* C3: Subtract returns the distance max(dA, -dB) and always A's emissive.
C3_SubtractKeepsFirstEmissive ==
    (inp.kind = "subtract" /\ Returned) =>
        \E a \in ChildA, b \in ChildB :
            /\ out.emissive = a.emissive
            /\ \/ out.sd = a.sd /\ ~DefLt(a.sd, FNeg(b.sd))
               \/ out.sd = FNeg(b.sd) /\ ~DefLt(FNeg(b.sd), a.sd)

\* the query point is strictly inside A and outside B, B's side dominates
C3_Witness ==
    /\ inp.kind = "subtract" /\ Returned
    /\ \A a \in ChildA, b \in ChildB :
          /\ a.sd.hi < 0 /\ b.sd.lo > 0 /\ DefLt(a.sd, FNeg(b.sd))
          /\ a.emissive # b.emissive
          /\ out = SdfResult(FNeg(b.sd), a.emissive)

\* the cross product of B - A and P - A, for vertices and a point that are
\* exact
Cross(ax, ay, bx, by, px, py) ==
    (bx.lo - ax.lo) * (py.lo - ay.lo) - (by.lo - ay.lo) * (px.lo - ax.lo)

TriNonDegenerate(s) == Cross(s.ax, s.ay, s.bx, s.by, s.cx, s.cy) # 0

\* strictly on the same side of all three edges, whatever the winding
TriStrictlyInside(s, x, y) ==
    LET c1 == Cross(s.ax, s.ay, s.bx, s.by, x, y)
        c2 == Cross(s.bx, s.by, s.cx, s.cy, x, y)
        c3 == Cross(s.cx, s.cy, s.ax, s.ay, x, y)
    IN \/ c1 > 0 /\ c2 > 0 /\ c3 > 0
       \/ c1 < 0 /\ c2 < 0 /\ c3 < 0

TriEdgeDistance(s, x, y) ==
    FMin(FMin(segment_sdf(x, y, s.ax, s.ay, s.bx, s.by),
              segment_sdf(x, y, s.bx, s.by, s.cx, s.cy)),
         segment_sdf(x, y, s.cx, s.cy, s.ax, s.ay))

\* C7: for a non-degenerate triangle, in either vertex order, the magnitude
\* of Triangle.sdf is the least of the three edge distances and the value is
\* negative exactly when the query point is strictly inside the triangle.
C7_TriangleSignedDistance ==
    (inp.kind = "triangle" /\ Returned /\ TriNonDegenerate(inp.shape)) =>
        /\ FAbs(out.sd) = TriEdgeDistance(inp.shape, inp.x, inp.y)
        /\ TriStrictlyInside(inp.shape, inp.x, inp.y) => out.sd.hi <= 0
        /\ ~TriStrictlyInside(inp.shape, inp.x, inp.y) => out.sd.lo >= 0

DegenerateSegment ==
    \/ inp.kind = "segment_sdf" /\ inp.ax = inp.bx /\ inp.ay = inp.by
    \/ /\ inp.kind = "capsule"
       /\ inp.shape.ax = inp.shape.bx /\ inp.shape.ay = inp.shape.by

\* the distance from the query point to the endpoint A, less the radius
DistanceToA ==
    IF inp.kind = "segment_sdf"
    THEN Norm(FSub(inp.x, inp.ax), FSub(inp.y, inp.ay))
    ELSE FSub(Norm(FSub(inp.x, inp.shape.ax), FSub(inp.y, inp.shape.ay)),
              inp.shape.r)

\* C10 as stated: for a segment whose endpoints coincide the projection does
\* not divide by zero, and the distance returned is the distance to A.
C10_GuardedDivision ==
    (DegenerateSegment /\ Returned) =>
        /\ out.divisor # Pt(0)
        /\ out.sd = DistanceToA

\* C10 as amended: for a segment whose endpoints coincide, the distance
\* returned is the distance from the query point to A (less the radius for
\* a capsule), although the projection divides 0.0 by 0.0 and gets NaN.
C10_DegenerateSegmentIsPoint ==
    (DegenerateSegment /\ Returned) =>
        /\ out.divisor = Pt(0)
        /\ FDiv(Pt(0), out.divisor) = Pt(NaN)
        /\ out.sd = DistanceToA

C10_Witness ==
    /\ DegenerateSegment /\ Returned
    /\ out.divisor = Pt(0)
    /\ out.sd = DistanceToA
    /\ inp.kind = "capsule" /\ out.sd.lo > 0

(***************************************************************************)
(* Claims about scene.rs                                                   *)
(***************************************************************************)
\* the byte offset (y * width + x) * 3 of a pixel, in 64 bits
ExactOffset(x, y, width) ==
    MulWide(AddWide(MulWide(Digits(y), Digits(width)), Digits(x)), Digits(3))

\* C4: for every width >= 1 and height >= 1 the loop body stores the value
\* of pixel (x, y) at the offsets (y*width + x)*3, +1, +2 of the buffer of
\* width*height*3 bytes, inside the buffer, and so finishes the pixel.
C4_PixelStoredAtItsOffset ==
    (inp.kind = "index" /\ Returned) =>
        /\ ~out.panic
        /\ out.index = ExactOffset(inp.x, inp.y, inp.width)
        /\ LessWide(AddWide(out.index, Digits(2)), out.len)

\* the render loop below the u32 range: once the loops are done the buffer
\* has width*height*3 bytes and every pixel was sampled once and stored, in
\* three equal channels, at its own offset (y*width + x)*3
RenderStoresEachPixelOnce ==
    (inp.kind = "render" /\ pc \in {"save", "done"}) =>
        /\ DOMAIN image = 0..(scene.width * scene.height * 3 - 1)
        /\ DOMAIN sampled = (0..(scene.width - 1)) \X (0..(scene.height - 1))
        /\ \A p \in DOMAIN sampled :
              LET k == (p[2] * scene.width + p[1]) * 3
              IN /\ sampled[p].count = 1
                 /\ sampled[p].offset = k
                 /\ image[k] \in SampleByte(sampled[p].sum)
                 /\ image[k + 1] = image[k] /\ image[k + 2] = image[k]

InvalidConfig ==
    scene.width = 0 \/ scene.height = 0 \/ sample_count = 0 \/ max_step = 0

\* C5: a scene of width 0 or height 0 (or sample_count 0 or max_step 0) is
\* rejected before any rendering work: it never samples a pixel, never
\* hands a buffer to the encoder, never removes or creates the file.
C5_InvalidConfigRejected ==
    (inp.kind = "render" /\ InvalidConfig) =>
        /\ pc \notin {"sample", "save", "done"}
        /\ sampled = <<>>
        /\ fs.sink = NoResult
        /\ ~fs.removed
        /\ ~fs.created

\* mean(contributions) * 255, clamped to [0, 255] and truncated, for the
\* sum v of the contributions in Scale units
ClampedMean(v) ==
    LET m == (v * 255) \div (sample_count * Scale)
    IN IF m < 0 THEN 0 ELSE IF m > 255 THEN 255 ELSE m

\* the pixel lies in a circle of emissive 2.0 that is the nearest surface
InsideBright(x, y) ==
    \A here \in SceneSdf(scene.shapes, Pt(x * Scale), Pt(y * Scale)) :
        BelowEpsilon(here.sd) = {TRUE} /\ here.emissive = Pt(2 * Scale)

\* C6: the byte stored for a pixel is the mean of its sample_count
\* contributions times 255, clamped to [0, 255] and truncated (of the sum
\* itself when the sum is exact, of a sum enclosed otherwise); for a pixel
\* inside a shape of emissive 2.0 it is 255 whatever the random draws.
C6_ByteIsClampedMean ==
    inp.kind = "render" =>
        \A p \in DOMAIN sampled :
            LET byte == image[sampled[p].offset]
                sum == sampled[p].sum
            IN /\ byte \in 0..255
               /\ ~IsNaN(sum)
               /\ \E v \in sum.lo..sum.hi : byte = ClampedMean(v)
               /\ InsideBright(p[1], p[2]) => byte = 255

C6_Witness ==
    /\ inp.kind = "render"
    /\ \E p \in DOMAIN sampled :
         /\ InsideBright(p[1], p[2])
         /\ sampled[p].sum = Pt(sample_count * 2 * Scale)
         /\ image[sampled[p].offset] = 255
    /\ \E p \in DOMAIN sampled :
         /\ ~InsideBright(p[1], p[2])
         /\ image[sampled[p].offset] \in 1..254

\* the distance accumulated over the first n queries of a trail
RECURSIVE SumSd(_, _)
SumSd(trail, n) ==
    IF n = 0 THEN Pt(0) ELSE FAdd(SumSd(trail, n - 1), trail[n].sd)

\* the state part of C8: what holds of a march in each of its states
C8_MarchInvariant ==
    inp.kind = "trace" =>
        LET n == Len(march.trail)
        IN /\ march.state \in {"Entry", "Panicked", "Marching", "Hit", "Miss"}
           /\ n <= max_step
           /\ march.state \in {"Entry", "Panicked"} =>
                n = 0 /\ march.distance = Pt(0)
           /\ (n = 0 /\ march.state \notin {"Entry", "Panicked"}) =>
                march.state = "Marching" /\ march.distance = Pt(0)
           /\ \A k \in 1..(n - 1) :
                /\ ~march.trail[k].below
                /\ FALSE \in BelowEpsilon(march.trail[k].sd)
           /\ march.state = "Hit" =>
                /\ march.trail[n].below
                /\ TRUE \in BelowEpsilon(march.trail[n].sd)
                /\ march.contribution = march.trail[n].emissive
                /\ out = march.contribution
                /\ march.distance = SumSd(march.trail, n - 1)
           /\ march.state = "Miss" =>
                /\ ~march.trail[n].below
                /\ FALSE \in BelowEpsilon(march.trail[n].sd)
                /\ march.contribution = Pt(0) /\ out = Pt(0)
                /\ march.distance = SumSd(march.trail, n)
                /\ TRUE \in Ge(march.distance, march.limit) \/ n = max_step
           /\ march.state = "Marching" =>
                /\ n > 0 => ~march.trail[n].below
                /\ march.step = n
                /\ march.distance = SumSd(march.trail, n)
                /\ n > 0 => FALSE \in Ge(march.distance, march.limit)
                /\ out = NoResult

\* C8: the march starts Marching at distance 0, makes at most max_step
\* queries, and stops for good in Hit or Miss: Hit at the first query below
\* EPSILON, with that query's emissive; Miss with 0 once the distance has
\* reached max_distance after an advance or max_step queries did not hit.
\* After Hit or Miss nothing is queried or advanced; while Marching every
\* iteration either ends the march or uses up one of the max_step steps.
C8_MarchEndsInHitOrMiss ==
    /\ []C8_MarchInvariant
    /\ [][march.state = "Entry" =>
            /\ march'.state \in {"Marching", "Panicked"}
            /\ march'.distance = Pt(0) /\ march'.trail = <<>>]_vars
    /\ [][march.state \in {"Hit", "Miss", "Panicked"} =>
            UNCHANGED <<march, out>>]_vars
    /\ [][march.state = "Marching" =>
            \/ march'.state \in {"Hit", "Miss"}
            \/ /\ march'.state = "Marching"
               /\ march'.step = march.step + 1 /\ march'.step <= max_step
               /\ Len(march'.trail) = Len(march.trail) + 1]_vars

\* a Hit, for every value enclosed, after several advances, on a surface
\* that emits
C8_Witness ==
    /\ inp.kind = "trace"
    /\ march.state = "Hit" /\ Len(march.trail) >= 3
    /\ BelowEpsilon(march.trail[Len(march.trail)].sd) = {TRUE}
    /\ \A k \in 1..(Len(march.trail) - 1) :
          BelowEpsilon(march.trail[k].sd) = {FALSE}
    /\ out = march.trail[Len(march.trail)].emissive /\ out.lo > 0

\* sqrt(width^2 + height^2)
Diagonal ==
    WideSqrt(MulWide(AddWide(MulWide(Digits(inp.width), Digits(inp.width)),
                             MulWide(Digits(inp.height), Digits(inp.height))),
                     Digits(Scale * Scale)))

\* C9: the max_distance of trace is the image diagonal sqrt(w^2 + h^2), and
\* trace declares a Miss by it exactly when the accumulated distance has
\* reached the diagonal: a march that goes on, or hits, has a distance
\* below the diagonal, and a march broken off before max_step queries has
\* reached it.
C9_MissAtImageDiagonal ==
    inp.kind = "trace" =>
        /\ march.state # "Panicked"
        /\ march.state \in {"Marching", "Hit", "Miss"} =>
               MayBeEqual(march.limit, Diagonal)
        /\ march.state \in {"Marching", "Hit"} =>
               FALSE \in Ge(march.distance, Diagonal)
        /\ (march.state = "Miss" /\ Len(march.trail) < max_step) =>
               TRUE \in Ge(march.distance, Diagonal)

====
